---------------------------- MODULE Spec2Model ----------------------------
(***************************************************************************)
(* A model of the BastionLab server runtime:                               *)
(*   - the chunk codec            (server/src/serialization.rs)            *)
(*   - the frame registry, the challenge set, the signed-request check     *)
(*     and the four RPC handlers  (server/src/main.rs)                     *)
(*   - the bearer-token interceptor (server/bastionai_common/src/auth.rs)  *)
(*   - the fetch stream: the spawned encoder task, the depth-4 channel and *)
(*     its consumer (both serialization.rs), and the chunk-by-chunk upload *)
(*                                                                         *)
(* The specifications that share the module:                               *)
(*   Spec         the RPC handlers running concurrently on the shared state*)
(*   SpecFetch    one handler at a time, with the full pool of metadata    *)
(*                header names                                             *)
(*   SpecCodec    bounded frames served chunk by chunk through the channel *)
(*                and read back chunk by chunk by the decoder              *)
(*   SpecDecode   the decoder reading bounded buffers chunk by chunk       *)
(*   SpecAuth     the interceptor applied to bounded requests              *)
(*   SpecChannel  one stream_data call: encoder task, channel, consumer    *)
(*   SpecChannelFair  the same under the scheduler's fairness              *)
(*   SpecUpload   uploads read chunk by chunk, and queries, concurrently   *)
(*   SpecStream   fetch streams served while uploads and queries insert    *)
(***************************************************************************)
EXTENDS Integers, Sequences, FiniteSets, TLC

VARIABLES
    \* ---- server state (main.rs:31-36) ----
    challenges,   \* BastionLabState.challenges : the set of outstanding nonces
    dataframes,   \* BastionLabState.dataframes : identifier -> frame
    pc,           \* per handler task: where it is in its RPC
    req,          \* per handler task: the request it is serving
    res,          \* per handler task: what its last finished RPC returned
    passed,       \* history: per challenge, the checks it passed since it was last minted
    ledger,       \* history: the (identifier, frame) pairs insert_df returned
    ninserts,     \* history: how many times insert_df returned
    \* ---- codec state ----
    cframe,       \* the frame handed to the encoder
    csize,        \* the chunk size handed to the encoder
    cchunks,      \* the chunk stream handed to the decoder
    cread,        \* how many of its chunks the decoder has appended to its buffer
    cout,         \* what the decoder returned
    cpc,          \* codec phase
    \* ---- interceptor state (auth.rs) ----
    jwtPolicy,    \* JWT_POLICY : the OnceCell
    now,          \* the wall clock read by the token validation
    areq,         \* the request being intercepted
    ares,         \* what the interceptor returned for it
    apc,          \* interceptor phase
    \* ---- streams ----
    rwlock,       \* the RwLock around BastionLabState.dataframes: who holds it
    inbound,      \* per handler task: the inbound chunk stream of its upload
    job,          \* per stream_data call: its arguments
    chan,         \* per stream_data call: its mpsc channel's buffer (capacity 4)
    task,         \* per stream_data call: its spawned encoder task
    rx            \* per stream_data call: the consumer of its ReceiverStream

serverVars == <<challenges, dataframes, pc, req, res, passed, ledger, ninserts>>
codecVars  == <<cframe, csize, cchunks, cread, cout, cpc>>
authVars   == <<jwtPolicy, now, areq, ares, apc>>
streamVars == <<rwlock, inbound, job, chan, task, rx>>
vars == <<challenges, dataframes, pc, req, res, passed, ledger, ninserts,
          cframe, csize, cchunks, cread, cout, cpc,
          jwtPolicy, now, areq, ares, apc,
          rwlock, inbound, job, chan, task, rx>>

(***************************************************************************)
(* Bounds                                                                  *)
(***************************************************************************)
MaxCols == 2          \* columns per frame
MaxPieces == 2        \* pieces concatenated into one column
MaxChunk == 3         \* largest chunk size tried by the codec
MaxTicks == 2         \* clock ticks after boot
MaxBufPieces == 3     \* pieces concatenated into one inbound buffer

NumChallenges == 2    \* distinct 32-byte values the RNG can draw
NumProcs == 2         \* concurrent RPC handler tasks
NumIds == 2           \* distinct UUIDs Uuid::new_v4 can draw
MaxStreams == 2       \* stream_data calls in flight at once

(***************************************************************************)
(* Generic helpers                                                         *)
(***************************************************************************)
RECURSIVE Flatten(_)
Flatten(ss) == IF ss = <<>> THEN <<>> ELSE Head(ss) \o Flatten(Tail(ss))

SeqsUpTo(S, n) == UNION {[1..k -> S] : k \in 0..n}

Min(a, b) == IF a < b THEN a ELSE b

(***************************************************************************)
(* Chunk codec (server/src/serialization.rs)                               *)
(* A byte is a number, a column is its serialized byte string, a frame is  *)
(* the ordered list of its columns' byte strings.                          *)
(***************************************************************************)
\* b"[end]"
MARKER == <<91, 101, 110, 100, 93>>

\* df_to_bytes: one serialized byte string per column, in column order.
DfToBytes(df) == [i \in 1..Len(df) |-> df[i]]

\* stream_data, lines 77-85: MARKER appended to every column, then flattened.
RawBytes(df) == Flatten([i \in 1..Len(df) |-> DfToBytes(df)[i] \o MARKER])

\* slice::chunks(k): consecutive slices of k bytes, the last one shorter.
SliceChunks(bytes, k) ==
    [i \in 1..((Len(bytes) + k - 1) \div k) |->
        SubSeq(bytes, (i - 1) * k + 1, Min(i * k, Len(bytes)))]

\* stream_data: the chunk messages the spawned task sends, in order.
StreamData(df, k) == SliceChunks(RawBytes(df), k)

\* unstream_data, lines 28-32: all chunk data appended into one buffer.
Accumulate(chunks) == Flatten(chunks)

\* unstream_data, lines 37-50: windows(5).enumerate(), a window that is not
\* the pattern mapped to usize::MIN (= 0), then every 0 filtered out.
MarkerHits(buf) ==
    LET n == Len(buf) - Len(MARKER)
        mapped == [j \in 1..(n + 1) |->
                     IF SubSeq(buf, j, j + Len(MARKER) - 1) = MARKER
                     THEN j - 1 ELSE 0]
    IN  SelectSeq(mapped, LAMBDA v : v # 0)

\* unstream_data, lines 35-36: vec![0] followed by the marker offsets.
Indexes(buf) == <<0>> \o MarkerHits(buf)

\* unstream_data, lines 52-65: one slice per window of two boundaries.
SliceColumns(buf) ==
    LET ix == Indexes(buf)
    IN  [w \in 1..(Len(ix) - 1) |->
            LET start == IF ix[w] = 0 THEN ix[w] ELSE ix[w] + 5
                end   == ix[w + 1]
            IN  SubSeq(buf, start + 1, end)]

\* unstream_data on a stream that yields no error.
UnstreamData(chunks) == SliceColumns(Accumulate(chunks))

(***************************************************************************)
(* Bounded codec inputs: a column is a non-empty concatenation of at most  *)
(* MaxPieces pieces (bincode never serializes a Series to zero bytes); the *)
(* pieces include the marker and its fragments.                            *)
(***************************************************************************)
Pieces == { <<120>>, <<91>>, <<91, 101, 110>>, <<100, 93>>, MARKER }
ColumnPool == { Flatten(ps) : ps \in SeqsUpTo(Pieces, MaxPieces) } \ { <<>> }
CodecFrames == SeqsUpTo(ColumnPool, MaxCols)
ChunkSizes == 1..MaxChunk

NoCodec == <<>>

InitCodecIdle ==
    /\ cframe = NoCodec /\ csize = 0 /\ cchunks = NoCodec /\ cread = 0
    /\ cout = NoCodec /\ cpc = "unused"


(***************************************************************************)
(* Server state and helpers (server/src/main.rs)                           *)
(***************************************************************************)
Procs == 1..NumProcs
Challenge == 1..NumChallenges
Identifier == 1..NumIds
Streams == 1..MaxStreams

None == <<>>
Some(x) == <<x>>

Ok == [kind |-> "Ok", msg |-> ""]
Err(k, m) == [kind |-> k, msg |-> m]

\* The chunk size fetch_data_frame passes to stream_data.
FetchChunkSize == 32

\* ---- metadata ----------------------------------------------------------
\* A metadata key is a sequence of tokens whose concatenation is the header
\* name; "signing-key-" and "-bin" are tokens of their own, so that
\* strip_suffix, contains and split act on tokens as they act on the text.
PAT == "signing-key-"
BIN == "-bin"

KnownHeader   == <<PAT, "k1", BIN>>               \* signing-key-k1-bin
UnknownHeader == <<PAT, "zz", BIN>>               \* signing-key-zz-bin
NestedHeader  == <<PAT, "zz-", PAT, "k1", BIN>>   \* signing-key-zz-signing-key-k1-bin
InfixHeader   == <<"x-", PAT, "k1", BIN>>         \* x-signing-key-k1-bin
AsciiHeader   == <<PAT, "zz">>                    \* signing-key-zz

\* KeyManagement as loaded from ./keys: the key-ids (file stems) it holds.
KeyRing == { <<"k1">> }

\* tonic's KeyRef: a key is Binary exactly when its name ends in "-bin".
IsBinaryKey(key) == Len(key) > 0 /\ key[Len(key)] = BIN

\* str::strip_suffix("-bin") on a name that ends in it.
StripSuffixBin(key) == SubSeq(key, 1, Len(key) - 1)

\* str::contains("signing-key-")
ContainsPat(key) == \E i \in 1..Len(key) : key[i] = PAT

\* str::split("signing-key-").last(): the text after the last occurrence.
SplitLast(key) ==
    LET at == {i \in 1..Len(key) : key[i] = PAT}
        lastAt == CHOOSE i \in at : \A j \in at : j <= i
    IN  IF at = {} THEN key ELSE SubSeq(key, lastAt + 1, Len(key))

\* KeyManagement::verify_key: resolve the key-id against the KeyRing.
VerifyKey(keyId) ==
    IF keyId \in KeyRing THEN Ok ELSE Err("PermissionDenied", "Unknown key")

\* verify_request, lines 61-77, for one metadata key.
VerifyOneKey(key) ==
    IF IsBinaryKey(key) /\ ContainsPat(StripSuffixBin(key))
    THEN VerifyKey(SplitLast(StripSuffixBin(key)))
    ELSE Ok

\* verify_request: the first key whose verify_key fails ends the loop with its
\* status (every failure carries the same status); otherwise Ok.
VerifyRequest(r) ==
    IF \E key \in r.keys : VerifyOneKey(key).kind # "Ok"
    THEN VerifyOneKey(CHOOSE key \in r.keys : VerifyOneKey(key).kind # "Ok")
    ELSE Ok

\* ---- challenge set -----------------------------------------------------
\* The challenge-bin header of a request: absent, present with a value that
\* does not base64-decode, or present with decoded bytes.
NoChallenge == [present |-> FALSE, decodes |-> FALSE, bytes |-> 0]
BadChallenge == [present |-> TRUE, decodes |-> FALSE, bytes |-> 0]
ChallengeHeader(c) == [present |-> TRUE, decodes |-> TRUE, bytes |-> c]
ChallengeHeaders == {NoChallenge, BadChallenge} \cup {ChallengeHeader(c) : c \in Challenge}

\* HashSet::remove: whether the value was present, and the set without it.
HashSetRemoveKeep(set, v) == [found |-> v \in set, set |-> set]
HashSetRemove(set, v) == [found |-> v \in set, set |-> set \ {v}]

\* HashSet::insert: whether the value was newly inserted, and the set with it.
HashSetInsertAlways(set, v) == [fresh |-> TRUE, set |-> set \cup {v}]
HashSetInsert(set, v) == [fresh |-> v \notin set, set |-> set \cup {v}]

\* check_challenge: the status it returns and the challenge set it leaves.
CheckChallengeContains(chs, r) ==
    IF ~r.challenge.present THEN [status |-> Ok, set |-> chs]
    ELSE IF ~r.challenge.decodes
    THEN [status |-> Err("InvalidArgument", "Could not decode challenge"), set |-> chs]
    ELSE IF r.challenge.bytes \notin chs
    THEN [status |-> Err("PermissionDenied", "Invalid or reused challenge"), set |-> chs]
    ELSE [status |-> Ok, set |-> chs]
CheckChallenge(chs, r) ==
    IF ~r.challenge.present THEN [status |-> Ok, set |-> chs]
    ELSE IF ~r.challenge.decodes
    THEN [status |-> Err("InvalidArgument", "Could not decode challenge"), set |-> chs]
    ELSE LET rm == HashSetRemove(chs, r.challenge.bytes)
         IN  IF ~rm.found
             THEN [status |-> Err("PermissionDenied", "Invalid or reused challenge"),
                   set |-> rm.set]
             ELSE [status |-> Ok, set |-> rm.set]

\* ---- registry ----------------------------------------------------------
\* HashMap::insert
HashMapInsertOnly(dfs, id, df) == [x \in {id} |-> df]
HashMapInsert(dfs, id, df) ==
    [x \in (DOMAIN dfs) \cup {id} |-> IF x = id THEN df ELSE dfs[x]]

\* Uuid::new_v4: the identifiers a draw can return. Version-4 UUIDs are unique
\* within the process (122 random bits), so a draw never repeats an
\* identifier the registry holds.
NewV4Any(dfs) == Identifier
NewV4(dfs) == Identifier \ DOMAIN dfs

\* get_df
GetDf(dfs, id) ==
    IF id \in DOMAIN dfs
    THEN [status |-> Ok, df |-> Some(dfs[id])]
    ELSE [status |-> Err("NotFound", "Could not find dataframe"), df |-> None]

\* ---- upload and query --------------------------------------------------
\* One item of an inbound chunk stream: a chunk, or the transport's error.
OkItem(bytes) == [ok |-> TRUE, data |-> bytes]
ErrItem == [ok |-> FALSE, data |-> <<>>]

\* unstream_data on an inbound stream: the first error item ends it (chunk?).
UnstreamItems(items) ==
    IF \E i \in 1..Len(items) : ~items[i].ok
    THEN [status |-> Err("Cancelled", "stream error"), columns |-> <<>>]
    ELSE [status |-> Ok,
          columns |-> UnstreamData([i \in 1..Len(items) |-> items[i].data])]

\* bincode::deserialize::<Series>: no Series serializes to zero bytes.
Deserializes(bytes) == bytes # <<>>

\* DataFrame::new: columns of one frame carry distinct names, so two equal
\* serialized columns are refused.
DataFrameNew(cols) ==
    IF \E i, j \in 1..Len(cols) : i # j /\ cols[i] = cols[j]
    THEN [status |-> Err("Unknown", "Failed to create DataFrame!"), df |-> None]
    ELSE [status |-> Ok, df |-> Some(cols)]

\* df_from_stream: unstream, deserialize every column (unwrap), build the frame.
DfFromStream(items) ==
    LET u == UnstreamItems(items)
    IN  IF u.status.kind # "Ok" THEN [status |-> u.status, df |-> None]
        ELSE IF \E i \in 1..Len(u.columns) : ~Deserializes(u.columns[i])
        THEN [status |-> Err("Panic", "called Result::unwrap() on an Err value"),
              df |-> None]
        ELSE DataFrameNew(u.columns)

\* serde_json::to_string(&df.schema()) (main.rs:144, 160): a schema is a list of
\* (column name, dtype) pairs, every one of which serde_json writes.
SchemaToJson(df) == Ok

\* A composite plan as received: text that parses as JSON or not, and the
\* EntryPoint identifiers of its segments.
BadPlan == [json |-> FALSE, segs |-> <<>>]
Plan(segs) == [json |-> TRUE, segs |-> segs]

\* CompositePlan::run: EntryPoint pushes get_df(id); the stack must end with
\* exactly one frame.
CompositePlanRun(dfs, plan) ==
    IF \E i \in 1..Len(plan.segs) : GetDf(dfs, plan.segs[i]).status.kind # "Ok"
    THEN [status |-> Err("NotFound", "Could not find dataframe"), df |-> None]
    ELSE IF Len(plan.segs) # 1
    THEN [status |-> Err("InvalidArgument", "InvalidPlan"), df |-> None]
    ELSE GetDf(dfs, plan.segs[1])

\* run_query, lines 134-142: parse the plan, then run it.
RunPlan(dfs, plan) ==
    IF ~plan.json
    THEN [status |-> Err("InvalidArgument", "Could not deserialize composite plan"),
          df |-> None]
    ELSE CompositePlanRun(dfs, plan)

(***************************************************************************)
(* The registry lock (main.rs:42, 49, 92)                                  *)
(***************************************************************************)
\* RwLock::new: nobody holds the lock.
RwLockNew == [readers |-> {}, writer |-> {}]

\* RwLock::read / RwLock::write return at once exactly when:
CanRead(l) == l.writer = {}
CanWrite(l) == l.writer = {} /\ l.readers = {}

\* RwLock::read: task p holds a shared guard.
RwLockRead(l, p) == [l EXCEPT !.readers = @ \cup {p}]

\* The guard `dfs` goes out of scope when get_df returns.
KeepReadGuard(l, p) == l
DropReadGuard(l, p) == [l EXCEPT !.readers = @ \ {p}]

(***************************************************************************)
(* stream_data: the channel, the spawned encoder task and the consumer     *)
(* (server/src/serialization.rs:70-97,                                     *)
(*  server/bastionlab_polars/src/serialization.rs:90-143)                  *)
(***************************************************************************)
\* mpsc::channel(4)
ChannelDepth == 4

\* One message on the channel: Ok(chunk) with a Data, Pending or Warning
\* body, or Err(status).
DataMsg(bytes) == [body |-> "Data", data |-> bytes]
StatusMsg(kind) == [body |-> kind, data |-> <<>>]
ErrMsg == [body |-> "Err", data |-> <<>>]

\* The arguments of one stream_data call. The server variant takes a frame;
\* the polars variant takes a DelayedDataFrame: a fetch_status and a future
\* that resolves to the frame or to an error status.
ServerJob(df, k) ==
    [variant |-> "server", df |-> df, chunk_size |-> k,
     fetch_status |-> "Other", future |-> "Ok"]
PolarsJob(df, k, st, fut) ==
    [variant |-> "polars", df |-> df, chunk_size |-> k,
     fetch_status |-> st, future |-> fut]
NoJob == ServerJob(<<>>, 0)

\* polars stream_data, lines 97-111: what stream_data itself sends before it
\* spawns the task.
StatusMessages(j) ==
    IF j.fetch_status \in {"Pending", "Warning"}
    THEN <<StatusMsg(j.fetch_status)>>
    ELSE <<>>

\* The data messages of a frame, in order.
DataMessages(df, k) ==
    [i \in 1..Len(StreamData(df, k)) |-> DataMsg(StreamData(df, k)[i])]

\* The messages the spawned task sends, in order: the future's error alone
\* (polars lines 114-120), or the chunks of the wire bytes.
TaskMessagesErrLast(j) ==
    IF j.future = "Err" THEN DataMessages(j.df, j.chunk_size) \o <<ErrMsg>>
    ELSE DataMessages(j.df, j.chunk_size) \o StatusMessages(j)
TaskMessages(j) ==
    IF j.future = "Err" THEN <<ErrMsg>>
    ELSE DataMessages(j.df, j.chunk_size)

\* The spawned task: where it is and what it has still to send.
Task(state, todo) == [state |-> state, todo |-> todo]
NoTask == Task("none", <<>>)

\* The consumer side: the receiver's state, the messages it was delivered.
Rx(state, got) == [state |-> state, got |-> got]
NoRx == Rx("none", <<>>)

\* Sender::send completes at once exactly when a permit is free.
HasCapacityAlways(c) == TRUE
HasCapacity(c) == Len(c) < ChannelDepth

\* A permit released by the receiver wakes the sender that waits for it.
WakeLost(t) == t
Wake(t) == IF t.state = "suspended" THEN [t EXCEPT !.state = "running"] ELSE t

\* An inbound upload stream as its handler sees it: the items the client
\* sends and how many of them stream.next() has yielded.
Inbound(items, nread) == [items |-> items, nread |-> nread]
NoInbound == Inbound(<<>>, 0)

\* No upload is being read and no stream_data call is in flight.
InitChannelIdle ==
    /\ rwlock = RwLockNew
    /\ inbound = [p \in Procs |-> NoInbound]
    /\ chan = [s \in Streams |-> <<>>]
    /\ task = [s \in Streams |-> NoTask]
    /\ rx = [s \in Streams |-> NoRx]

InitStreamIdle == InitChannelIdle /\ job = [s \in Streams |-> NoJob]

(***************************************************************************)
(* Bounded server inputs                                                   *)
(***************************************************************************)
ServerFrames == { << <<120>> >>, << <<120>>, <<121>> >> }
UploadStreams ==
    { [i \in 1..Len(StreamData(f, 4)) |-> OkItem(StreamData(f, 4)[i])] : f \in ServerFrames }
      \cup { <<ErrItem>>, <<OkItem(<<120>> \o MARKER \o MARKER)>> }
Plans == {BadPlan, Plan(<<>>)} \cup {Plan(<<id>>) : id \in Identifier}

AllHeaders == {KnownHeader, UnknownHeader, NestedHeader, InfixHeader, AsciiHeader}
SmallKeySets == { {KnownHeader}, {UnknownHeader} }
AllKeySets == SUBSET AllHeaders

\* A request as its handler holds it; consumed records whether check_challenge
\* removed the presented challenge from the set (history).
FetchReq(ch, ks, id) ==
    [challenge |-> ch, keys |-> ks, identifier |-> id, df |-> None, consumed |-> FALSE]
NoReq == FetchReq(NoChallenge, {}, 0)
FetchRequests(headers, keySets) ==
    { FetchReq(ch, ks, id) : ch \in headers, ks \in keySets, id \in Identifier }

\* What an RPC returned: the operation, the step it ended at, its status, and
\* the value it carries (a minted challenge, an identifier, a chunk stream).
Result(op, stage, st, c, id, out) ==
    [op |-> op, stage |-> stage, status |-> st, c |-> c, id |-> id, out |-> out]
NoRes == Result("none", "none", Ok, None, None, None)

(***************************************************************************)
(* Server actions: one per lock-delimited step of an RPC handler           *)
(***************************************************************************)
InitServer ==
    /\ challenges = {}
    /\ dataframes = <<>>
    /\ pc = [p \in Procs |-> "idle"]
    /\ req = [p \in Procs |-> NoReq]
    /\ res = [p \in Procs |-> NoRes]
    /\ passed = [c \in Challenge |-> 0]
    /\ ledger = {}
    /\ ninserts = 0

InitServerIdle ==
    /\ challenges = {} /\ dataframes = <<>> /\ pc = <<>> /\ req = <<>>
    /\ res = <<>> /\ passed = <<>> /\ ledger = {} /\ ninserts = 0

InitAuthIdle ==
    /\ jwtPolicy = None /\ now = 0 /\ areq = None /\ ares = None /\ apc = "unused"

ServerOnly == UNCHANGED <<codecVars, authVars, streamVars>>

\* The handler of task p returns r.
Return(p, r) ==
    /\ pc' = [pc EXCEPT ![p] = "idle"]
    /\ res' = [res EXCEPT ![p] = r]

\* get_challenge / new_challenge: one iteration of the loop with the drawn
\* value v; a value already in the set sends the task round the loop again.
GetChallenge(p, v) ==
    /\ pc[p] \in {"idle", "mint"}
    /\ LET ins == HashSetInsert(challenges, v)
       IN  /\ challenges' = ins.set
           /\ IF ins.fresh
              THEN /\ Return(p, Result("get_challenge", "mint", Ok, Some(v), None, None))
                   /\ passed' = [passed EXCEPT ![v] = 0]
              ELSE /\ pc' = [pc EXCEPT ![p] = "mint"]
                   /\ res' = [res EXCEPT ![p] = NoRes]
                   /\ UNCHANGED passed
    /\ req' = [req EXCEPT ![p] = NoReq]
    /\ UNCHANGED <<dataframes, ledger, ninserts>>
    /\ ServerOnly

\* A FetchDataFrame request reaches its handler.
FetchArrive(p, r) ==
    /\ pc[p] = "idle"
    /\ pc' = [pc EXCEPT ![p] = "check"]
    /\ req' = [req EXCEPT ![p] = r]
    /\ res' = [res EXCEPT ![p] = NoRes]
    /\ UNCHANGED <<challenges, dataframes, passed, ledger, ninserts>>
    /\ ServerOnly

\* fetch_data_frame, line 170: self.check_challenge(&request)?
FetchCheckChallenge(p) ==
    /\ pc[p] = "check"
    /\ LET cc == CheckChallenge(challenges, req[p])
           took == cc.set # challenges
       IN  /\ challenges' = cc.set
           /\ req' = [req EXCEPT ![p].consumed = took]
           /\ passed' = IF cc.status.kind = "Ok" /\ req[p].challenge.present
                        THEN [passed EXCEPT ![req[p].challenge.bytes] = @ + 1]
                        ELSE passed
           /\ IF cc.status.kind = "Ok"
              THEN /\ pc' = [pc EXCEPT ![p] = "verify"]
                   /\ UNCHANGED res
              ELSE Return(p, Result("fetch", "check", cc.status, None, None, None))
    /\ UNCHANGED <<dataframes, ledger, ninserts>>
    /\ ServerOnly

\* fetch_data_frame, line 171: self.verify_request(&request)?
FetchVerifyRequest(p) ==
    /\ pc[p] = "verify"
    /\ LET vr == VerifyRequest(req[p])
       IN  IF vr.kind = "Ok"
           THEN /\ pc' = [pc EXCEPT ![p] = "get"]
                /\ UNCHANGED res
           ELSE Return(p, Result("fetch", "verify", vr, None, None, None))
    /\ UNCHANGED <<challenges, dataframes, req, passed, ledger, ninserts>>
    /\ ServerOnly

\* fetch_data_frame, lines 172-174: get_df, then stream_data(df, 32).
FetchGetDf(p) ==
    /\ pc[p] = "get"
    /\ CanRead(rwlock)
    /\ LET g == GetDf(dataframes, req[p].identifier)
       IN  IF g.status.kind = "Ok"
           THEN Return(p, Result("fetch", "get", Ok, None, None,
                                 Some(StreamData(g.df[1], FetchChunkSize))))
           ELSE Return(p, Result("fetch", "get", g.status, None, None, None))
    /\ UNCHANGED <<challenges, dataframes, req, passed, ledger, ninserts>>
    /\ ServerOnly

\* insert_df: a fresh identifier, the frame inserted under the write lock.
InsertDf(p, df, op) ==
    \E id \in NewV4(dataframes) :
        /\ CanWrite(rwlock)
        /\ dataframes' = HashMapInsert(dataframes, id, df)
        /\ ledger' = ledger \cup {<<id, df>>}
        /\ ninserts' = ninserts + 1
        /\ Return(p, Result(op, "insert", Ok, None, Some(id), None))

\* run_query, lines 134-149: the plan parsed and run against the registry,
\* the header of the result serialized.
QueryRun(p, plan) ==
    /\ pc[p] = "idle"
    /\ CanRead(rwlock)
    /\ LET r == RunPlan(dataframes, plan)
       IN  IF r.status.kind # "Ok"
           THEN /\ Return(p, Result("run_query", "run", r.status, None, None, None))
                /\ req' = [req EXCEPT ![p] = NoReq]
           ELSE IF SchemaToJson(r.df[1]).kind # "Ok"
           THEN /\ Return(p, Result("run_query", "header",
                                    Err("Internal", "Could not serialize result data frame header"),
                                    None, None, None))
                /\ req' = [req EXCEPT ![p] = NoReq]
           ELSE /\ pc' = [pc EXCEPT ![p] = "insert"]
                /\ req' = [req EXCEPT ![p] = [NoReq EXCEPT !.df = r.df]]
                /\ res' = [res EXCEPT ![p] = NoRes]
    /\ UNCHANGED <<challenges, dataframes, passed, ledger, ninserts>>
    /\ ServerOnly

\* run_query, line 150: the result inserted.
QueryInsert(p) ==
    /\ pc[p] = "insert"
    /\ InsertDf(p, req[p].df[1], "run_query")
    /\ req' = [req EXCEPT ![p] = NoReq]
    /\ UNCHANGED <<challenges, passed>>
    /\ ServerOnly

(***************************************************************************)
(* send_data_frame: the inbound stream read chunk by chunk                 *)
(* (main.rs:154-164, serialization.rs:8-15 and 27-32)                      *)
(***************************************************************************)
NotCodecAuth == UNCHANGED <<codecVars, authVars>>

\* stream.next().await returned None: the client ended the stream.
EndOfStreamEarly(u) == u.nread >= 1
EndOfStream(u) == u.nread = Len(u.items)

\* The items unstream_data has appended to its buffer so far.
ReadSoFar(u) == SubSeq(u.items, 1, u.nread)

\* The handler of task p returns r; the inbound stream it owned is dropped.
ReturnUpload(p, r) ==
    /\ Return(p, r)
    /\ inbound' = [inbound EXCEPT ![p] = NoInbound]

\* A SendDataFrame call reaches its handler with the client's stream.
UploadArrive(p, items) ==
    /\ pc[p] = "idle"
    /\ pc' = [pc EXCEPT ![p] = "recv"]
    /\ inbound' = [inbound EXCEPT ![p] = Inbound(items, 0)]
    /\ req' = [req EXCEPT ![p] = NoReq]
    /\ res' = [res EXCEPT ![p] = NoRes]
    /\ UNCHANGED <<challenges, dataframes, passed, ledger, ninserts>>
    /\ UNCHANGED <<rwlock, job, chan, task, rx>>
    /\ NotCodecAuth

\* unstream_data, lines 29-32: stream.next().await yields one item; a chunk
\* is appended to the buffer, an error ends the handler with that status.
UploadNext(p) ==
    /\ pc[p] = "recv"
    /\ ~EndOfStream(inbound[p])
    /\ LET u == inbound[p]
           item == u.items[u.nread + 1]
       IN  IF item.ok
           THEN /\ inbound' = [inbound EXCEPT ![p].nread = @ + 1]
                /\ UNCHANGED <<pc, res>>
           ELSE ReturnUpload(p, Result("send_data_frame", "recv",
                                       UnstreamItems(<<item>>).status, None, None, None))
    /\ UNCHANGED <<challenges, dataframes, req, passed, ledger, ninserts>>
    /\ UNCHANGED <<rwlock, job, chan, task, rx>>
    /\ NotCodecAuth

\* The stream ended: the buffer is sliced and deserialized, the frame built,
\* its header serialized and, if all that succeeded, the frame inserted
\* (serialization.rs:34-66 and 10-14, main.rs:160-163).
UploadEnd(p) ==
    /\ pc[p] = "recv"
    /\ EndOfStream(inbound[p])
    /\ LET d == DfFromStream(ReadSoFar(inbound[p]))
       IN  IF d.status.kind # "Ok"
           THEN /\ Return(p, Result("send_data_frame", "decode", d.status, None, None, None))
                /\ UNCHANGED <<dataframes, ledger, ninserts>>
           ELSE IF SchemaToJson(d.df[1]).kind # "Ok"
           THEN /\ Return(p, Result("send_data_frame", "header",
                                    Err("Internal", "Could not serialize header"),
                                    None, None, None))
                /\ UNCHANGED <<dataframes, ledger, ninserts>>
           ELSE InsertDf(p, d.df[1], "send_data_frame")
    /\ inbound' = [inbound EXCEPT ![p] = NoInbound]
    /\ UNCHANGED <<challenges, req, passed>>
    /\ UNCHANGED <<rwlock, job, chan, task, rx>>
    /\ NotCodecAuth

\* The client drops the call while the handler awaits the next item: the
\* handler's future is dropped where it stands.
UploadCancel(p) ==
    /\ pc[p] = "recv"
    /\ ReturnUpload(p, Result("send_data_frame", "dropped",
                              Err("Cancelled", "client dropped the stream"),
                              None, None, None))
    /\ UNCHANGED <<challenges, dataframes, req, passed, ledger, ninserts>>
    /\ UNCHANGED <<rwlock, job, chan, task, rx>>
    /\ NotCodecAuth

Init == InitServer /\ InitCodecIdle /\ InitAuthIdle /\ InitStreamIdle

Next ==
    \/ \E p \in Procs, v \in Challenge : GetChallenge(p, v)
    \/ \E p \in Procs, r \in FetchRequests(ChallengeHeaders, SmallKeySets) : FetchArrive(p, r)
    \/ \E p \in Procs : FetchCheckChallenge(p)
    \/ \E p \in Procs : FetchVerifyRequest(p)
    \/ \E p \in Procs : FetchGetDf(p)
    \/ \E p \in Procs, items \in UploadStreams : UploadArrive(p, items)
    \/ \E p \in Procs : UploadNext(p)
    \/ \E p \in Procs : UploadEnd(p)
    \/ \E p \in Procs : UploadCancel(p)
    \/ \E p \in Procs, plan \in Plans : QueryRun(p, plan)
    \/ \E p \in Procs : QueryInsert(p)

Spec == Init /\ [][Next]_vars

\* One handler at a time, every combination of metadata headers.
NextFetch ==
    \/ \E v \in Challenge : GetChallenge(1, v)
    \/ \E r \in FetchRequests(ChallengeHeaders \ {BadChallenge}, AllKeySets) : FetchArrive(1, r)
    \/ FetchCheckChallenge(1)
    \/ FetchVerifyRequest(1)
    \/ FetchGetDf(1)
    \/ \E items \in UploadStreams : UploadArrive(1, items)
    \/ UploadNext(1)
    \/ UploadEnd(1)
    \/ UploadCancel(1)
    \/ \E plan \in Plans : QueryRun(1, plan)
    \/ QueryInsert(1)

SpecFetch == Init /\ [][NextFetch]_vars

(***************************************************************************)
(* Bearer-token interceptor (server/bastionai_common/src/auth.rs)          *)
(***************************************************************************)
\* Validation::new(Algorithm::ES256): the leeway, in seconds, that the
\* validation policy applies to exp.
Leeway == 60

\* The wall clock at boot.
Clock0 == Leeway + 40

\* JwtClaims
JwtClaims(userid, username, exp) == [userid |-> userid, username |-> username, exp |-> exp]

\* AuthExtension { claims: Option<JwtClaims> }
AuthExtension(claims) == [claims |-> claims]
\* AuthExtension::default()
AuthExtensionDefault == AuthExtension(None)

\* The (Validation, DecodingKey) pair setup_jwt stores.
ValidationPolicy == [alg |-> "ES256", validate_exp |-> TRUE, leeway |-> Leeway]

\* The value of an accesstoken header: bytes that are visible ASCII or not
\* and, when they are, a token whose ES256 signature verifies against the
\* decoding key or not, and whose payload deserializes into JwtClaims or not.
NonAsciiValue ==
    [ascii |-> FALSE, sig |-> FALSE, shape |-> FALSE, claims |-> JwtClaims(0, "", 0)]
Token(sig, claims) == [ascii |-> TRUE, sig |-> sig, shape |-> TRUE, claims |-> claims]
ShapelessToken(sig) ==
    [ascii |-> TRUE, sig |-> sig, shape |-> FALSE, claims |-> JwtClaims(0, "", 0)]

\* MetadataValue::to_str
ToStr(value) == value.ascii

\* jsonwebtoken::decode::<JwtClaims>(t, key, policy) at time t.
JwtDecodeNoExp(value, policy, t) == value.sig /\ value.shape
JwtDecode(value, policy, t) ==
    /\ value.sig
    /\ value.shape
    /\ (policy.validate_exp => value.claims.exp >= t - policy.leeway)

\* auth_interceptor: the status and the extension attached to the request
\* (None: no AuthExtension was inserted).
AuthInterceptorStrict(policy, r, t) ==
    IF policy = None THEN [status |-> Ok, ext |-> None, at |-> t]
    ELSE IF r.accesstoken = None
    THEN [status |-> Err("Unauthenticated", "You are not authenticated"),
          ext |-> None, at |-> t]
    ELSE IF ~ToStr(r.accesstoken[1])
    THEN [status |-> Err("InvalidArgument", "Invalid AccessToken header"),
          ext |-> None, at |-> t]
    ELSE IF ~JwtDecode(r.accesstoken[1], policy[1], t)
    THEN [status |-> Err("InvalidArgument", "Failed to decode AccessToken"),
          ext |-> None, at |-> t]
    ELSE [status |-> Ok, ext |-> Some(AuthExtension(Some(r.accesstoken[1].claims))),
          at |-> t]
AuthInterceptor(policy, r, t) ==
    IF policy = None THEN [status |-> Ok, ext |-> None, at |-> t]
    ELSE IF r.accesstoken = None
    THEN [status |-> Ok, ext |-> Some(AuthExtensionDefault), at |-> t]
    ELSE IF ~ToStr(r.accesstoken[1])
    THEN [status |-> Err("InvalidArgument", "Invalid AccessToken header"),
          ext |-> None, at |-> t]
    ELSE IF ~JwtDecode(r.accesstoken[1], policy[1], t)
    THEN [status |-> Err("InvalidArgument", "Failed to decode AccessToken"),
          ext |-> None, at |-> t]
    ELSE [status |-> Ok, ext |-> Some(AuthExtension(Some(r.accesstoken[1].claims))),
          at |-> t]

\* Bounded interceptor inputs.
ExpValues ==
    { Clock0 - Leeway - 1, Clock0 - Leeway, Clock0 - Leeway + 1,
      Clock0 - 1, Clock0, Clock0 + MaxTicks + 1 }
TokenValues ==
    {NonAsciiValue}
      \cup {ShapelessToken(sig) : sig \in BOOLEAN}
      \cup {Token(sig, JwtClaims(u, "alice", e)) : sig \in BOOLEAN, u \in 1..2, e \in ExpValues}
AuthRequests ==
    {[accesstoken |-> None]} \cup {[accesstoken |-> Some(v)] : v \in TokenValues}
KeyFiles == {"missing", "valid", "malformed"}

InitAuth ==
    /\ jwtPolicy = None
    /\ now = Clock0
    /\ areq = None
    /\ ares = None
    /\ apc = "boot"

AuthOnly == UNCHANGED <<serverVars, codecVars, streamVars>>

\* setup_jwt: ./jwt_key.pem is missing (the policy stays unset), holds an EC
\* key (the policy is set), or does not parse (expect panics).
SetupJwt(keyFile) ==
    /\ apc = "boot"
    /\ jwtPolicy' = IF keyFile = "valid" THEN Some(ValidationPolicy) ELSE jwtPolicy
    /\ apc' = IF keyFile = "malformed" THEN "crashed" ELSE "ready"
    /\ UNCHANGED <<now, areq, ares>>
    /\ AuthOnly

\* The wall clock advances.
Tick ==
    /\ apc # "crashed"
    /\ now < Clock0 + MaxTicks
    /\ now' = now + 1
    /\ UNCHANGED <<jwtPolicy, areq, ares, apc>>
    /\ AuthOnly

\* A request reaches the interceptor.
AuthArrive(r) ==
    /\ apc \in {"ready", "handled", "rejected"}
    /\ areq' = Some(r)
    /\ ares' = None
    /\ apc' = "arrived"
    /\ UNCHANGED <<jwtPolicy, now>>
    /\ AuthOnly

\* auth_interceptor runs on the request.
Intercept ==
    /\ apc = "arrived"
    /\ LET out == AuthInterceptor(jwtPolicy, areq[1], now)
       IN  /\ ares' = Some(out)
           /\ apc' = IF out.status.kind = "Ok" THEN "accepted" ELSE "rejected"
    /\ UNCHANGED <<jwtPolicy, now, areq>>
    /\ AuthOnly

\* The RPC handler runs on a request the interceptor let through.
Handler ==
    /\ apc = "accepted"
    /\ apc' = "handled"
    /\ UNCHANGED <<jwtPolicy, now, areq, ares>>
    /\ AuthOnly

InitAuthSpec == InitServerIdle /\ InitCodecIdle /\ InitAuth /\ InitStreamIdle

NextAuth ==
    \/ \E keyFile \in KeyFiles : SetupJwt(keyFile)
    \/ Tick
    \/ \E r \in AuthRequests : AuthArrive(r)
    \/ Intercept
    \/ Handler

SpecAuth == InitAuthSpec /\ [][NextAuth]_vars

(***************************************************************************)
(* stream_data calls: per call, the encoder task, the channel and the      *)
(* consumer                                                                *)
(***************************************************************************)
NotStream == UNCHANGED <<serverVars, codecVars, authVars, rwlock, inbound>>

\* stream_data up to its return: the channel created, the status message (if
\* any) sent, the task spawned, the receiver handed to the consumer. Nothing
\* of the frame has been sent when it returns.
StreamDataCall(s, j) ==
    /\ chan' = [chan EXCEPT ![s] = StatusMessages(j)]
    /\ task' = [task EXCEPT ![s] = Task("running", TaskMessages(j))]
    /\ rx' = [rx EXCEPT ![s] = Rx("open", <<>>)]

\* The caller invokes stream_data on the job.
CallStreamData(s) ==
    /\ task[s].state = "none" /\ rx[s].state = "none"
    /\ job[s] # NoJob
    /\ StreamDataCall(s, job[s])
    /\ UNCHANGED job
    /\ NotStream

\* tx.send(..).await with a free permit: the message is queued.
EncoderSend(s) ==
    /\ task[s].state = "running" /\ task[s].todo # <<>>
    /\ rx[s].state = "open"
    /\ HasCapacity(chan[s])
    /\ chan' = [chan EXCEPT ![s] = Append(@, Head(task[s].todo))]
    /\ task' = [task EXCEPT ![s].todo = Tail(@)]
    /\ UNCHANGED <<job, rx>>
    /\ NotStream

\* tx.send(..).await with no free permit: the task suspends.
EncoderSuspend(s) ==
    /\ task[s].state = "running" /\ task[s].todo # <<>>
    /\ rx[s].state = "open"
    /\ ~HasCapacity(chan[s])
    /\ task' = [task EXCEPT ![s].state = "suspended"]
    /\ UNCHANGED <<job, chan, rx>>
    /\ NotStream

\* tx.send(..).await after the receiver was dropped: Err, and unwrap panics.
EncoderPanic(s) ==
    /\ task[s].state \in {"running", "suspended"} /\ task[s].todo # <<>>
    /\ rx[s].state = "dropped"
    /\ task' = [task EXCEPT ![s].state = "panicked"]
    /\ UNCHANGED <<job, chan, rx>>
    /\ NotStream

\* The loop is over (or the error was sent): the task returns and tx drops.
EncoderReturn(s) ==
    /\ task[s].state = "running" /\ task[s].todo = <<>>
    /\ task' = [task EXCEPT ![s].state = "done"]
    /\ UNCHANGED <<job, chan, rx>>
    /\ NotStream

\* The consumer takes the next message; the permit it frees wakes the sender.
Recv(s) ==
    /\ rx[s].state = "open" /\ chan[s] # <<>>
    /\ rx' = [rx EXCEPT ![s].got = Append(@, Head(chan[s]))]
    /\ chan' = [chan EXCEPT ![s] = Tail(@)]
    /\ task' = [task EXCEPT ![s] = Wake(@)]
    /\ UNCHANGED job
    /\ NotStream

\* The consumer polls an empty channel whose sender is gone: end of stream.
RecvEnd(s) ==
    /\ rx[s].state = "open" /\ chan[s] = <<>>
    /\ task[s].state \in {"done", "panicked"}
    /\ rx' = [rx EXCEPT ![s].state = "ended"]
    /\ UNCHANGED <<job, chan, task>>
    /\ NotStream

\* The consumer goes away: the receiver and what it buffered are dropped.
ConsumerDrop(s) ==
    /\ rx[s].state = "open"
    /\ rx' = [rx EXCEPT ![s].state = "dropped"]
    /\ chan' = [chan EXCEPT ![s] = <<>>]
    /\ UNCHANGED <<job, task>>
    /\ NotStream

\* Both ends of a stream are gone (the task returned or panicked, the
\* receiver saw the end or was dropped): the call's channel is freed.
StreamClose(s) ==
    /\ task[s].state \in {"done", "panicked"}
    /\ rx[s].state \in {"ended", "dropped"}
    /\ job' = [job EXCEPT ![s] = NoJob]
    /\ chan' = [chan EXCEPT ![s] = <<>>]
    /\ task' = [task EXCEPT ![s] = NoTask]
    /\ rx' = [rx EXCEPT ![s] = NoRx]
    /\ NotStream

\* Bounded stream_data arguments.
Jobs ==
    { ServerJob(df, k) : df \in ServerFrames, k \in ChunkSizes }
      \cup { PolarsJob(df, k, st, fut) :
               df \in ServerFrames, k \in ChunkSizes,
               st \in {"Other", "Pending", "Warning"}, fut \in {"Ok", "Err"} }

\* One stream_data call, on any of the bounded jobs.
InitChannel ==
    /\ InitServerIdle /\ InitCodecIdle /\ InitAuthIdle /\ InitChannelIdle
    /\ \E j \in Jobs : job = [s \in Streams |-> IF s = 1 THEN j ELSE NoJob]

NextChannel ==
    \/ \E s \in Streams : CallStreamData(s)
    \/ \E s \in Streams : EncoderSend(s)
    \/ \E s \in Streams : EncoderSuspend(s)
    \/ \E s \in Streams : EncoderPanic(s)
    \/ \E s \in Streams : EncoderReturn(s)
    \/ \E s \in Streams : Recv(s)
    \/ \E s \in Streams : RecvEnd(s)
    \/ \E s \in Streams : ConsumerDrop(s)

SpecChannel == InitChannel /\ [][NextChannel]_vars

\* The same under the scheduler's fairness: the runtime polls a task that can
\* make progress (the caller, the spawned encoder), and the consumer keeps
\* polling the stream for as long as it holds the receiver. Dropping the
\* receiver is the consumer's choice and is not forced.
ChannelFairness ==
    \A s \in Streams :
        /\ WF_vars(CallStreamData(s))
        /\ WF_vars(EncoderSend(s))
        /\ WF_vars(EncoderSuspend(s))
        /\ WF_vars(EncoderPanic(s))
        /\ WF_vars(EncoderReturn(s))
        /\ WF_vars(Recv(s))
        /\ WF_vars(RecvEnd(s))

SpecChannelFair == InitChannel /\ [][NextChannel]_vars /\ ChannelFairness

(***************************************************************************)
(* The codec end to end: stream_data serves a frame through its channel,   *)
(* the consumer plays the chunks it was delivered back as the inbound      *)
(* stream of unstream_data, which reads them one await at a time           *)
(***************************************************************************)
CodecStep == UNCHANGED <<cframe, csize, serverVars, authVars, streamVars>>

\* A consumer that was delivered the stream to its end plays the chunks back,
\* in order, as unstream_data's stream. (A consumer that dropped the receiver
\* holds a truncated stream; truncated streams are among SpecDecode's inputs.)
Replay ==
    /\ cpc = "frame"
    /\ rx[1].state = "ended"
    /\ cchunks' = [i \in 1..Len(rx[1].got) |-> rx[1].got[i].data]
    /\ cread' = 0
    /\ cpc' = "wire"
    /\ UNCHANGED cout
    /\ CodecStep

\* unstream_data, lines 29-31: stream.next().await yields a chunk, which is
\* appended to the buffer.
DecodeNext ==
    /\ cpc = "wire"
    /\ cread < Len(cchunks)
    /\ cread' = cread + 1
    /\ UNCHANGED <<cchunks, cout, cpc>>
    /\ CodecStep

\* unstream_data, line 30: stream.next().await yields the transport's error,
\* and chunk? returns it.
DecodeError ==
    /\ cpc = "wire"
    /\ cpc' = "failed"
    /\ UNCHANGED <<cchunks, cread, cout>>
    /\ CodecStep

\* unstream_data, lines 34-66: stream.next().await yields None, and the
\* buffer is sliced at the markers.
DecodeEnd ==
    /\ cpc = "wire"
    /\ cread = Len(cchunks)
    /\ cout' = SliceColumns(Accumulate(SubSeq(cchunks, 1, cread)))
    /\ cpc' = "decoded"
    /\ UNCHANGED <<cchunks, cread>>
    /\ CodecStep

\* The caller is dropped while unstream_data awaits the next chunk: the
\* future is dropped where it stands and nothing is decoded.
DecodeCancel ==
    /\ cpc = "wire"
    /\ cpc' = "dropped"
    /\ UNCHANGED <<cchunks, cread, cout>>
    /\ CodecStep

InitCodec ==
    /\ InitServerIdle /\ InitAuthIdle /\ InitChannelIdle
    /\ cframe \in CodecFrames /\ csize \in ChunkSizes
    /\ cchunks = NoCodec /\ cread = 0 /\ cout = NoCodec /\ cpc = "frame"
    /\ job = [s \in Streams |-> IF s = 1 THEN ServerJob(cframe, csize) ELSE NoJob]

NextCodec ==
    \/ \E s \in Streams : CallStreamData(s)
    \/ \E s \in Streams : EncoderSend(s)
    \/ \E s \in Streams : EncoderSuspend(s)
    \/ \E s \in Streams : EncoderPanic(s)
    \/ \E s \in Streams : EncoderReturn(s)
    \/ \E s \in Streams : Recv(s)
    \/ \E s \in Streams : RecvEnd(s)
    \/ \E s \in Streams : ConsumerDrop(s)
    \/ Replay
    \/ DecodeNext
    \/ DecodeError
    \/ DecodeEnd
    \/ DecodeCancel

SpecCodec == InitCodec /\ [][NextCodec]_vars

\* The decoder on its own: any buffer of at most MaxBufPieces pieces, cut into
\* chunks of any of the chunk sizes, arrives on the wire.
Buffers == { Flatten(ps) : ps \in SeqsUpTo(Pieces, MaxBufPieces) }

InitDecode ==
    /\ InitServerIdle /\ InitAuthIdle /\ InitStreamIdle
    /\ cframe = NoCodec /\ csize = 0
    /\ cchunks \in { SliceChunks(buf, k) : buf \in Buffers, k \in ChunkSizes }
    /\ cread = 0 /\ cout = NoCodec /\ cpc = "wire"

NextDecode == DecodeNext \/ DecodeError \/ DecodeEnd \/ DecodeCancel

SpecDecode == InitDecode /\ [][NextDecode]_vars

(***************************************************************************)
(* fetch_data_frame with its stream served by the spawned encoder task,    *)
(* beside uploads and queries on the shared registry                       *)
(***************************************************************************)
\* The stream slots no call is using.
FreeStreams == { s \in Streams : task[s].state = "none" /\ rx[s].state = "none" }

\* fetch_data_frame, lines 172-174, with the stream made explicit: get_df
\* under the shared lock, the guard dropped when get_df returns, then
\* stream_data(df, 32) on the owned clone, with a channel and a task of its
\* own (the first free slot, while fewer than MaxStreams are in flight).
FetchGetDfStream(p) ==
    /\ pc[p] = "get"
    /\ CanRead(rwlock)
    /\ LET g == GetDf(dataframes, req[p].identifier)
           j == ServerJob(g.df[1], FetchChunkSize)
       IN  IF g.status.kind = "Ok"
           THEN \E s \in FreeStreams :
                   /\ \A t \in FreeStreams : s <= t
                   /\ Return(p, Result("fetch", "get", Ok, None, None,
                                       Some(StreamData(g.df[1], FetchChunkSize))))
                   /\ job' = [job EXCEPT ![s] = j]
                   /\ StreamDataCall(s, j)
           ELSE /\ Return(p, Result("fetch", "get", g.status, None, None, None))
                /\ UNCHANGED <<job, chan, task, rx>>
    /\ rwlock' = DropReadGuard(RwLockRead(rwlock, p), p)
    /\ UNCHANGED <<challenges, dataframes, req, passed, ledger, ninserts, inbound>>
    /\ NotCodecAuth

\* Bounded inputs of the chunk-by-chunk upload.
SmallFrame == << <<120>> >>
ChunkedBy(df, k) == [i \in 1..Len(StreamData(df, k)) |-> OkItem(StreamData(df, k)[i])]
StepUploads ==
    { ChunkedBy(SmallFrame, 4),
      ChunkedBy(<< <<120>>, <<121>> >>, 4),
      <<ChunkedBy(SmallFrame, 4)[1], ErrItem>>,
      <<OkItem(<<120>> \o MARKER), OkItem(MARKER)>>,
      <<OkItem(<<120>> \o MARKER), OkItem(<<120>> \o MARKER)>> }

\* Uploads read chunk by chunk, and queries, on every handler task.
NextUpload ==
    \/ \E p \in Procs, items \in StepUploads : UploadArrive(p, items)
    \/ \E p \in Procs : UploadNext(p)
    \/ \E p \in Procs : UploadEnd(p)
    \/ \E p \in Procs : UploadCancel(p)
    \/ \E p \in Procs, plan \in Plans : QueryRun(p, plan)
    \/ \E p \in Procs : QueryInsert(p)

SpecUpload == Init /\ [][NextUpload]_vars

\* Bounded inputs of the fetch stream: a frame whose wire bytes make more
\* chunks of FetchChunkSize than the channel holds, and a one-byte frame.
BigFrame == << [i \in 1..(ChannelDepth * FetchChunkSize) |-> 120] >>
StreamUploads ==
    { ChunkedBy(BigFrame, 3 * FetchChunkSize), ChunkedBy(SmallFrame, 6) }
StreamRequests == FetchRequests({NoChallenge}, {{KnownHeader}})

\* Task 1 serves fetches, task 2 serves uploads and queries over one stored
\* frame; every consumer keeps its receiver (a receiver that is dropped, and
\* the encoder's panic that follows, are among SpecChannel's behaviours).
NextStream ==
    \/ \E r \in StreamRequests : FetchArrive(1, r)
    \/ FetchCheckChallenge(1)
    \/ FetchVerifyRequest(1)
    \/ FetchGetDfStream(1)
    \/ \E items \in StreamUploads : UploadArrive(2, items)
    \/ UploadNext(2)
    \/ UploadEnd(2)
    \/ UploadCancel(2)
    \/ \E id \in Identifier : QueryRun(2, Plan(<<id>>))
    \/ QueryInsert(2)
    \/ \E s \in Streams : EncoderSend(s)
    \/ \E s \in Streams : EncoderSuspend(s)
    \/ \E s \in Streams : EncoderReturn(s)
    \/ \E s \in Streams : Recv(s)
    \/ \E s \in Streams : RecvEnd(s)
    \/ \E s \in Streams : StreamClose(s)

SpecStream == Init /\ [][NextStream]_vars

(***************************************************************************)
(* Vocabulary of the claims                                                *)
(***************************************************************************)
Denied == Err("PermissionDenied", "Invalid or reused challenge")

\* Task p's last RPC was a FetchDataFrame that returned a data stream.
Streamed(p) == res[p].op = "fetch" /\ res[p].status.kind = "Ok"
\* Task p's last RPC was a FetchDataFrame that was rejected.
FetchRejected(p) == res[p].op = "fetch" /\ res[p].status.kind # "Ok" /\ res[p].out = None

\* A header name of the form signing-key-<KEY-ID>-bin, and its <KEY-ID>.
IsSigningHeader(key) == Len(key) >= 2 /\ key[1] = PAT /\ key[Len(key)] = BIN
KeyIdOf(key) == SubSeq(key, 2, Len(key) - 1)
SigningHeaders(r) == {key \in r.keys : IsSigningHeader(key)}

\* Task p presents the decodable challenge c and is about to be checked.
Presents(p, c) == pc[p] = "check" /\ req[p].challenge = ChallengeHeader(c)

\* C1: challenges are single-use. Every check of a presented challenge c that
\* is outstanding (minted and not consumed since) succeeds and removes c from
\* the set; every check of c after it was consumed (and every check of a
\* value that is not outstanding) fails with PermissionDenied("Invalid or
\* reused challenge") and leaves the set alone; and c leaves the set only by
\* a check that passes, whatever the other tasks mint and consume.
C1_SingleUse ==
    [][ /\ \A p \in Procs, c \in Challenge :
             (Presents(p, c) /\ pc'[p] # "check") =>
                 IF passed[c] = 0 /\ c \in challenges
                 THEN /\ pc'[p] = "verify"
                      /\ c \notin challenges'
                      /\ passed'[c] = 1
                 ELSE /\ pc'[p] = "idle"
                      /\ res'[p].status = Denied
                      /\ challenges' = challenges
        /\ \A c \in Challenge :
             /\ passed[c] >= 1 => c \notin challenges
             /\ (c \in challenges /\ c \notin challenges') => passed'[c] = passed[c] + 1
      ]_vars

\* C1 witness: a challenge was minted, consumed once, and a later fetch that
\* presented it was rejected as reused.
C1_Witness ==
    \E p \in Procs, c \in Challenge :
        /\ req[p].challenge = ChallengeHeader(c)
        /\ res[p].op = "fetch" /\ res[p].stage = "check" /\ res[p].status = Denied
        /\ passed[c] = 1

\* C2: a valid challenge is mandatory on Fetch. Every fetch that returned a
\* data stream consumed a challenge from the set, and a fetch request without
\* a challenge-bin header is rejected.
C2_ChallengeMandatory ==
    \A p \in Procs :
        /\ Streamed(p) => req[p].consumed
        /\ (res[p].op = "fetch" /\ ~req[p].challenge.present) => FetchRejected(p)

\* C3: a valid signature is mandatory on Fetch. Every fetch that returned a
\* data stream carried a signing-key-<KEY-ID>-bin header whose key-id is in
\* the KeyRing, and a fetch request with no signing-key header is rejected.
C3_SignatureMandatory ==
    \A p \in Procs :
        /\ Streamed(p) => \E key \in SigningHeaders(req[p]) : KeyIdOf(key) \in KeyRing
        /\ (res[p].op = "fetch" /\ SigningHeaders(req[p]) = {}) => FetchRejected(p)

\* C4: every identifier insert_df returned still resolves through get_df to
\* the frame inserted under it; no identifier was returned twice or rebound.
C4_RegistryStable ==
    /\ \A e \in ledger : GetDf(dataframes, e[1]) = [status |-> Ok, df |-> Some(e[2])]
    /\ \A e1, e2 \in ledger : e1[1] = e2[1] => e1 = e2
    /\ Cardinality(ledger) = ninserts
    /\ DOMAIN dataframes = {e[1] : e \in ledger}

\* C4 witness: two frames were inserted (one by an upload, one as a query
\* result) and a later fetch streamed the frame stored under its identifier.
C4_Witness ==
    /\ ninserts >= 2
    /\ \E p, q \in Procs :
         /\ p # q
         /\ res[q].op = "run_query" /\ res[q].status.kind = "Ok"
         /\ Streamed(p)
         /\ \E e \in ledger :
              /\ e[1] = req[p].identifier
              /\ res[p].out = Some(StreamData(e[2], FetchChunkSize))

\* C5: decoding the chunk sequence the encoder produced for a frame yields
\* the frame's column list, for every chunk size: when the consumer was
\* delivered the stream to its end and the decoder read all of it, what the
\* decoder returns is the frame.
C5_RoundTrip == (cpc = "decoded" /\ rx[1].state = "ended") => cout = cframe

\* C6: of the fetch requests that present the same minted challenge, at most
\* one passes the challenge check, and every request that the check rejects
\* for its (decodable) challenge gets PermissionDenied("Invalid or reused
\* challenge").
C6_AtMostOnePasses ==
    /\ \A c \in Challenge : passed[c] <= 1
    /\ \A p \in Procs :
         (res[p].op = "fetch" /\ res[p].stage = "check" /\ req[p].challenge.decodes)
             => res[p].status = Denied

\* C6 witness: two requests presented the same challenge at the same time; one
\* passed the check and is still being served, the other was rejected.
C6_Witness ==
    \E p, q \in Procs, c \in Challenge :
        /\ p # q
        /\ req[p].challenge = ChallengeHeader(c) /\ req[q].challenge = ChallengeHeader(c)
        /\ pc[p] \in {"verify", "get"} /\ req[p].consumed
        /\ res[q].op = "fetch" /\ res[q].stage = "check" /\ res[q].status = Denied
        /\ passed[c] = 1

\* ---- interceptor claims ------------------------------------------------
Intercepted == apc \in {"accepted", "rejected", "handled"}
PolicyEnabled == jwtPolicy # None
HasToken == areq # None /\ areq[1].accesstoken # None
TokenOf == areq[1].accesstoken[1]
\* The presented value is a token whose exp was in the past when the
\* interceptor ran.
ExpiredToken ==
    /\ HasToken /\ TokenOf.ascii /\ TokenOf.shape
    /\ TokenOf.claims.exp < ares[1].at
\* ... and further in the past than the validation leeway.
ExpiredBeyondLeeway ==
    /\ HasToken /\ TokenOf.ascii /\ TokenOf.shape
    /\ TokenOf.claims.exp < ares[1].at - Leeway
RejectedAsUndecodable ==
    /\ apc = "rejected"
    /\ ares[1].status = Err("InvalidArgument", "Failed to decode AccessToken")

\* C7 as stated: every request that presents an expired token is rejected
\* with InvalidArgument("Failed to decode AccessToken") and never handled.
C7_ExpiredRejected_Original ==
    (Intercepted /\ ExpiredToken) => RejectedAsUndecodable

\* C7 amended: with the bearer policy enabled, every request that presents a
\* token whose exp lies more than the 60 s leeway in the past is rejected
\* with InvalidArgument("Failed to decode AccessToken") and never handled.
C7_ExpiredRejected ==
    (Intercepted /\ PolicyEnabled /\ ExpiredBeyondLeeway) => RejectedAsUndecodable

\* C7 witness: a correctly signed token, expired beyond the leeway, rejected.
C7_Witness ==
    /\ Intercepted /\ PolicyEnabled /\ ExpiredBeyondLeeway /\ TokenOf.sig
    /\ RejectedAsUndecodable

\* C8: with the bearer policy disabled every request passes the interceptor
\* and carries an AuthExtension with no claims.
C8_DisabledEmptyIdentity ==
    (Intercepted /\ ~PolicyEnabled) =>
        /\ apc \in {"accepted", "handled"}
        /\ ares[1].ext = Some(AuthExtensionDefault)

\* C9: with the bearer policy enabled, a request without accesstoken is let
\* through with an empty identity; a request is let through with a non-empty
\* identity only if its token verified (signature, payload, exp within the
\* leeway), and the attached claim is the token's claim.
C9_EnabledIdentity ==
    (Intercepted /\ PolicyEnabled) =>
        /\ ~HasToken =>
             /\ apc \in {"accepted", "handled"}
             /\ ares[1].ext = Some(AuthExtensionDefault)
        /\ (apc \in {"accepted", "handled"} /\ ares[1].ext # None
              /\ ares[1].ext # Some(AuthExtensionDefault)) =>
             /\ HasToken
             /\ TokenOf.ascii /\ TokenOf.sig /\ TokenOf.shape
             /\ TokenOf.claims.exp >= ares[1].at - Leeway
             /\ ares[1].ext = Some(AuthExtension(Some(TokenOf.claims)))

\* C9 witness: the handler ran on a request whose token verified.
C9_Witness ==
    /\ apc = "handled" /\ PolicyEnabled /\ HasToken
    /\ ares[1].ext = Some(AuthExtension(Some(TokenOf.claims)))

\* C10: a fetch request that carries a signing-key-<KEY-ID>-bin header whose
\* key-id is not in the KeyRing is rejected with PermissionDenied, whatever
\* other signing-key headers it carries.
C10_UnknownKeyRejected ==
    \A p \in Procs :
        (res[p].op = "fetch"
           /\ \E key \in SigningHeaders(req[p]) : KeyIdOf(key) \notin KeyRing)
        => (FetchRejected(p) /\ res[p].status.kind = "PermissionDenied")

\* ---- upload, query and stream claims -----------------------------------
\* Task p, which is reading an upload, takes a step.
UploadStep(p) ==
    pc[p] = "recv" /\ (pc'[p] # "recv" \/ inbound'[p] # inbound[p])
\* Task p's step returns an identifier to the uploading client.
UploadReturnsOk(p) ==
    pc'[p] = "idle" /\ res'[p].op = "send_data_frame" /\ res'[p].status.kind = "Ok"
\* The registry after it gained the one entry id -> df.
GainsOne(id, df) ==
    /\ id \notin DOMAIN dataframes
    /\ DOMAIN dataframes' = DOMAIN dataframes \cup {id}
    /\ dataframes'[id] = df
    /\ \A x \in DOMAIN dataframes : dataframes'[x] = dataframes[x]

\* C11: upload is atomic with respect to the registry. A step of an upload
\* handler changes the registry only when it returns an identifier, and then
\* the whole inbound stream had been read, it decoded into a frame, and the
\* registry gained exactly that frame under the returned identifier; every
\* other step of the handler (a chunk read, a stream error, a cancellation,
\* a failed decode) leaves the registry as it was.
C11_UploadAtomic ==
    [][ \A p \in Procs :
          UploadStep(p) =>
            IF UploadReturnsOk(p)
            THEN /\ inbound[p].nread = Len(inbound[p].items)
                 /\ DfFromStream(inbound[p].items).status.kind = "Ok"
                 /\ res'[p].id # None
                 /\ GainsOne(res'[p].id[1], DfFromStream(inbound[p].items).df[1])
            ELSE dataframes' = dataframes
      ]_vars

\* C11 witness: one upload was read to its end and inserted while another,
\* whose stream decodes into a frame, has had a chunk read and more to come;
\* the registry holds the one entry of the upload that returned.
C11_Witness ==
    \E p, q \in Procs :
        /\ p # q
        /\ res[p].op = "send_data_frame" /\ res[p].status.kind = "Ok"
        /\ pc[q] = "recv"
        /\ inbound[q].nread >= 1 /\ inbound[q].nread < Len(inbound[q].items)
        /\ DfFromStream(inbound[q].items).status.kind = "Ok"
        /\ ninserts = 1 /\ DOMAIN dataframes = {res[p].id[1]}

\* Task p's step is the first half of run_query: the plan parsed and run.
QueryRunStep(p) ==
    pc[p] = "idle" /\ (pc'[p] = "insert" \/ (res'[p].op = "run_query" /\ res'[p] # res[p]))
\* Task p's step is the second half of run_query: the result inserted.
QueryInsertStep(p) == pc[p] = "insert" /\ pc'[p] = "idle"

\* C12: run_query never modifies or removes a registry entry. Parsing and
\* running the plan, whether it succeeds or fails (unparseable plan,
\* NotFound, evaluation error), leaves the registry unchanged; the insert
\* that ends a successful query adds exactly one entry, the result, under an
\* identifier the registry did not hold, and leaves every prior entry as it
\* was.
C12_QueryFrameEffect ==
    [][ \A p \in Procs :
          /\ QueryRunStep(p) => dataframes' = dataframes
          /\ QueryInsertStep(p) =>
               /\ res'[p].op = "run_query" /\ res'[p].status.kind = "Ok"
               /\ res'[p].id # None
               /\ GainsOne(res'[p].id[1], req[p].df[1])
      ]_vars

\* C12 witness: a query over a stored frame returned the identifier of its
\* result, the registry holds the source and the result, and another query
\* failed with NotFound.
C12_Witness ==
    \E p, q \in Procs :
        /\ p # q
        /\ res[p].op = "run_query" /\ res[p].status.kind = "Ok"
        /\ res[p].id # None /\ res[p].id[1] \in DOMAIN dataframes
        /\ Cardinality(DOMAIN dataframes) = 2
        /\ res[q].op = "run_query" /\ res[q].status.kind = "NotFound"

\* The channel of stream s holds as many messages as it has permits.
ChannelFull(s) == Len(chan[s]) = ChannelDepth

\* C13: encoder backpressure. The channel between the encoder task and the
\* consumer never holds more than 4 undelivered messages; while it holds 4
\* the encoder emits nothing (what it has still to send stays as it is); and
\* an encoder that suspended on the full channel stays suspended until the
\* consumer takes a message (or goes away).
C13_Backpressure ==
    [][ \A s \in Streams :
          /\ Len(chan[s]) <= ChannelDepth /\ Len(chan'[s]) <= ChannelDepth
          /\ ChannelFull(s) =>
                 (task'[s].todo = task[s].todo /\ Len(chan'[s]) <= Len(chan[s]))
          /\ (task[s].state = "suspended" /\ task'[s].state # "suspended") =>
                 \/ rx[s].state = "dropped"
                 \/ /\ chan[s] # <<>>
                    /\ chan'[s] = Tail(chan[s])
                    /\ rx'[s].got = Append(rx[s].got, Head(chan[s]))
      ]_vars

\* C13 witness: the consumer took a message, the encoder refilled the
\* channel to 4 and is suspended with chunks still to send.
C13_Witness ==
    \E s \in Streams :
        /\ ChannelFull(s)
        /\ task[s].state = "suspended" /\ task[s].todo # <<>>
        /\ rx[s].state = "open" /\ rx[s].got # <<>>

\* The upload's stream ended without error and a column sliced from its
\* buffer does not deserialize.
DeserializationFails(u) ==
    /\ UnstreamItems(u.items).status.kind = "Ok"
    /\ \E i \in 1..Len(UnstreamItems(u.items).columns) :
           ~Deserializes(UnstreamItems(u.items).columns[i])

\* C14: an upload whose column fails to deserialize ends with an
\* InvalidPayload status returned to the client (the handler does not
\* panic), returns no identifier and leaves the registry as it was: the
\* step that ends the reading of such a stream returns exactly that.
C14_InvalidPayload ==
    [][ \A p \in Procs :
          (UploadStep(p) /\ inbound[p].nread = Len(inbound[p].items)
             /\ DeserializationFails(inbound[p])
             /\ pc'[p] = "idle" /\ res'[p].stage = "decode")
          => /\ res'[p].status.kind = "InvalidPayload"
             /\ res'[p].id = None
             /\ dataframes' = dataframes
      ]_vars

\* ---- decoder slicing ---------------------------------------------------
\* The offsets at which MARKER occurs in a buffer, in increasing order.
MarkerOffsets(buf) ==
    LET at == { j \in 0..(Len(buf) - Len(MARKER)) :
                  SubSeq(buf, j + 1, j + Len(MARKER)) = MARKER }
    IN  CHOOSE m \in [1..Cardinality(at) -> at] :
            \A i, j \in 1..Cardinality(at) : i < j => m[i] < m[j]

\* One slice per MARKER occurrence: the first from offset 0, each later one
\* from the previous occurrence + 5, each up to its own occurrence.
SlicesBetween(buf) ==
    LET m == MarkerOffsets(buf)
    IN  [i \in 1..Len(m) |->
            SubSeq(buf, (IF i = 1 THEN 0 ELSE m[i - 1] + Len(MARKER)) + 1, m[i])]

\* C15: for every accumulated buffer and every chunking of it, unstream_data
\* returns exactly one slice per MARKER occurrence: the substrings between
\* consecutive boundaries, the boundaries being offset 0 and every MARKER
\* occurrence; bytes after the last MARKER are dropped and a buffer without
\* MARKER yields no column.
C15_DecoderSlicing ==
    cpc = "decoded" => cout = SlicesBetween(Accumulate(cchunks))

\* ---- mint --------------------------------------------------------------
\* What get_challenge returns for the minted value v.
Minted(v) == Result("get_challenge", "mint", Ok, Some(v), None, None)
\* Task p's step returns a minted challenge to its client.
MintReturns(p) == res'[p] # res[p] /\ res'[p].op = "get_challenge"

\* C16: mint uniqueness. Every value get_challenge returns was absent from
\* the challenge set just before the insert that returned it and is in the
\* set just after, and that insert grows the set by exactly that value; the
\* set grows by no other step. Hence a value that is outstanding (in the
\* set) is never handed out a second time, by the same or by a concurrent
\* handler, until a check has consumed it.
C16_MintUnique ==
    [][ /\ \A p \in Procs :
             MintReturns(p) =>
                 /\ res'[p].c # None
                 /\ res'[p].c[1] \notin challenges
                 /\ challenges' = challenges \cup {res'[p].c[1]}
                 /\ Cardinality(challenges') = Cardinality(challenges) + 1
        /\ \A v \in Challenge :
             (v \notin challenges /\ v \in challenges') =>
                 /\ challenges' = challenges \cup {v}
                 /\ \E p \in Procs :
                      pc[p] \in {"idle", "mint"} /\ pc'[p] = "idle" /\ res'[p] = Minted(v)
      ]_vars

\* C16 witness: two handlers each returned a challenge, both are outstanding
\* and they differ.
C16_Witness ==
    \E p, q \in Procs :
        /\ p # q
        /\ res[p].op = "get_challenge" /\ res[q].op = "get_challenge"
        /\ res[p].c # res[q].c
        /\ challenges = {res[p].c[1], res[q].c[1]}
        /\ passed[res[p].c[1]] = 0 /\ passed[res[q].c[1]] = 0

\* ---- output stream ------------------------------------------------------
\* The messages emitted on the output stream so far, in order: those the
\* consumer was delivered, then those waiting in the channel.
Emitted(s) == rx[s].got \o chan[s]
IsStatus(m) == m.body \in {"Pending", "Warning"}
IsData(m) == m.body = "Data"

\* C17: status before data. A status message is only ever the first message
\* of the stream (so none follows a data message); when the fetch status is
\* Pending or Warning the first message of the stream is that status, ahead
\* of every data message; and when the deferred frame future fails the
\* stream carries no data message and ends with the error.
C17_StatusBeforeData ==
    \A s \in Streams :
        /\ \A i \in 1..Len(Emitted(s)) : IsStatus(Emitted(s)[i]) => i = 1
        /\ (job[s].fetch_status \in {"Pending", "Warning"} /\ Emitted(s) # <<>>) =>
               Emitted(s)[1] = StatusMsg(job[s].fetch_status)
        /\ job[s].future = "Err" =>
               /\ \A i \in 1..Len(Emitted(s)) : ~IsData(Emitted(s)[i])
               /\ rx[s].state = "ended" =>
                      (rx[s].got # <<>> /\ rx[s].got[Len(rx[s].got)] = ErrMsg)

\* C17 witness: a stream with a Warning status was consumed to its end: the
\* status first, then more than one data message.
C17_Witness ==
    \E s \in Streams :
        /\ job[s].variant = "polars" /\ job[s].fetch_status = "Warning"
        /\ rx[s].state = "ended" /\ Len(rx[s].got) >= 3
        /\ rx[s].got[1] = StatusMsg("Warning")
        /\ \A i \in 2..Len(rx[s].got) : IsData(rx[s].got[i])

\* ---- registry lock ------------------------------------------------------
\* The encoder task of fetch stream s is suspended on the full channel.
Stalled(s) == task[s].state = "suspended" /\ ChannelFull(s)
\* Fetch stream s is being served.
Streaming(s) == task[s].state \in {"running", "suspended"}

\* C18: the registry lock is not held across a suspension point. While a
\* fetch stream is being served, and in particular while it is stalled on
\* the full channel, nobody holds the lock on the registry: get_df dropped
\* its shared guard before stream_data was called. So a handler that is about
\* to insert (a query result, or an upload read to its end) can take the
\* exclusive lock and complete.
C18_LockFreeWhileStreaming ==
    /\ \A s \in Streams : Streaming(s) => (rwlock = RwLockNew /\ CanWrite(rwlock))
    /\ \A p \in Procs, s \in Streams :
         (Stalled(s) /\ NewV4(dataframes) # {}) =>
             /\ pc[p] = "insert" => ENABLED QueryInsert(p)
             /\ (pc[p] = "recv" /\ EndOfStream(inbound[p])) => ENABLED UploadEnd(p)

\* C18 witness: an encoder is suspended on the full channel, its consumer has
\* taken nothing, a second fetch stream is in flight beside it, and a handler
\* that ran a query is about to insert the result.
C18_Witness ==
    \E s, t \in Streams :
        /\ s # t
        /\ Stalled(s) /\ task[s].todo # <<>>
        /\ rx[s].state = "open" /\ rx[s].got = <<>>
        /\ Streaming(t)
        /\ \E p \in Procs : pc[p] = "insert"

\* ---- challenge consumed before the later checks ------------------------
\* Task p's last RPC was a fetch that presented c, passed the challenge
\* check and then failed at the signature check or at the registry lookup.
FailedAfterCheck(p, c) ==
    /\ res[p].op = "fetch" /\ res[p].stage \in {"verify", "get"}
    /\ res[p].status.kind # "Ok"
    /\ req[p].challenge = ChallengeHeader(c)

\* C19: the challenge a fetch presents is consumed at the challenge check,
\* before the signature check and the registry lookup. A handler that is at
\* either of those has already removed the challenge it was presented; when
\* it then fails there (unknown signing key, NotFound) the challenge set is
\* left as it is, with the challenge still removed; and a retry that
\* presents the same challenge is rejected with PermissionDenied("Invalid or
\* reused challenge").
C19_ConsumedBeforeVerify ==
    [][ \A p \in Procs, c \in Challenge :
          /\ (pc[p] \in {"verify", "get"} /\ req[p].challenge = ChallengeHeader(c))
                => req[p].consumed
          /\ (pc[p] \in {"verify", "get"} /\ req[p].challenge = ChallengeHeader(c)
                /\ pc'[p] = "idle" /\ res'[p].status.kind # "Ok")
                => /\ challenges' = challenges
                   /\ passed[c] >= 1 => c \notin challenges'
          /\ \A q \in Procs :
               (FailedAfterCheck(p, c) /\ passed[c] >= 1
                  /\ Presents(q, c) /\ pc'[q] # "check")
                => (pc'[q] = "idle" /\ res'[q].status = Denied)
      ]_vars

\* C19 witness: a fetch consumed its challenge and then failed at the
\* signature check or the lookup; a retry with the same challenge was
\* rejected as reused.
C19_Witness ==
    \E p, q \in Procs, c \in Challenge :
        /\ p # q
        /\ FailedAfterCheck(p, c) /\ req[p].consumed
        /\ passed[c] = 1 /\ c \notin challenges
        /\ req[q].challenge = ChallengeHeader(c)
        /\ res[q].op = "fetch" /\ res[q].stage = "check" /\ res[q].status = Denied

\* ---- encoder liveness --------------------------------------------------
\* The whole output stream of a job, in order.
WholeStream(j) ==
    StatusMessages(j) \o
        (IF j.future = "Ok" THEN DataMessages(j.df, j.chunk_size) ELSE <<ErrMsg>>)
\* The consumer of stream s saw the whole stream and then its end; the task
\* returned.
StreamCompleted(s) ==
    /\ rx[s].state = "ended" /\ chan[s] = <<>>
    /\ task[s].state = "done" /\ task[s].todo = <<>>
    /\ rx[s].got = WholeStream(job[s])

\* C20: encoder liveness. For every frame and every chunk size >= 1, unless
\* the consumer drops the stream, eventually the encoder task has sent every
\* chunk of the frame's wire bytes, in order, and has returned, and the
\* consumer has been delivered all of them and then the end of the stream.
C20_EncoderLiveness ==
    \A s \in Streams :
        job[s] # NoJob => <>(rx[s].state = "dropped" \/ StreamCompleted(s))

\* C20 witness: a stream of more chunks than the channel holds was delivered
\* to its end, and the chunks delivered are the frame's wire bytes.
C20_Witness ==
    \E s \in Streams :
        /\ StreamCompleted(s)
        /\ job[s].future = "Ok" /\ job[s].chunk_size >= 1
        /\ Len(rx[s].got) > ChannelDepth + 1
        /\ Flatten([i \in 1..Len(rx[s].got) |-> rx[s].got[i].data]) = RawBytes(job[s].df)

=============================================================================
